---- MODULE Spec2Model ----
(***************************************************************************)
(* Frame-selection and resolution-normalisation engine of                  *)
(* src/test/vision_process.py: smart_resize, smart_nframes, the three      *)
(* video readers and fetch_video.                                          *)
(*                                                                         *)
(* Python floats are modelled by exact non-negative reals of the form      *)
(* (n/d)^(1/r), r \in {1,2}: a rational (r = 1) or the square root of a    *)
(* rational (r = 2).  These are the only reals the code computes.          *)
(***************************************************************************)
EXTENDS Integers, Sequences, FiniteSets, TLC

(***************************************************************************)
(* Bounds of the model.                                                    *)
(***************************************************************************)
MaxDim == 6
MaxFactor == 3
MaxPixels == 12
MaxTotal == 10
MaxFrames == 6
MaxFps == 3
MaxVideoFrames == 4
MaxThreads == 2
MaxCalls == 3
MaxElements == 3
MaxHint == 3

(***************************************************************************)
(* Program constants.                                                      *)
(***************************************************************************)
IMAGE_FACTOR == 28
MIN_PIXELS == 4 * 28 * 28
MAX_PIXELS == 16384 * 28 * 28
MAX_RATIO == 200
VIDEO_MIN_PIXELS == 128 * 28 * 28
VIDEO_MAX_PIXELS == 768 * 28 * 28
\* int(float(128000 * 28 * 28 * 0.9)), the environment variable unset
VIDEO_TOTAL_PIXELS == 90316800
FRAME_FACTOR == 2
FPS == 2
FPS_MIN_FRAMES == 4
FPS_MAX_FRAMES == 768

(***************************************************************************)
(* Exact arithmetic.                                                       *)
(***************************************************************************)
Max(a, b) == IF a >= b THEN a ELSE b
Min(a, b) == IF a <= b THEN a ELSE b

\* ceil(a / b) on integers, a >= 0, b > 0
CeilDivInt(a, b) == (a + b - 1) \div b

RECURSIVE ISqrtFrom(_, _)
ISqrtFrom(m, r) == IF (r + 1) * (r + 1) > m THEN r ELSE ISqrtFrom(m, r + 1)
\* floor(sqrt(m)), m >= 0
ISqrt(m) == ISqrtFrom(m, 0)
\* ceil(sqrt(m)), m >= 0
CeilSqrt(m) == LET s == ISqrt(m) IN IF s * s = m THEN s ELSE s + 1

\* the real a / b (Python's true division of two integers)
Rat(a, b) == [n |-> a, d |-> b, r |-> 1]
IntR(i) == Rat(i, 1)
\* math.sqrt of a rational
Sqrt(x) == [n |-> x.n, d |-> x.d, r |-> 2]
\* i / x and i * x for an integer i >= 0 and a real x > 0
IntDivReal(i, x) ==
    IF x.r = 1 THEN Rat(i * x.d, x.n)
    ELSE [n |-> i * i * x.d, d |-> x.n, r |-> 2]
IntMulReal(i, x) ==
    IF x.r = 1 THEN Rat(i * x.n, x.d)
    ELSE [n |-> i * i * x.n, d |-> x.d, r |-> 2]
\* order, max and min of two rationals
RLeq(x, y) == x.n * y.d <= y.n * x.d
RLess(x, y) == x.n * y.d < y.n * x.d
RMax(x, y) == IF RLeq(y, x) THEN x ELSE y
RMin(x, y) == IF RLeq(x, y) THEN x ELSE y
\* math.floor(x / f) and math.ceil(x / f) for a real x >= 0 and an integer f > 0
FloorDiv(x, f) ==
    IF x.r = 1 THEN x.n \div (x.d * f)
    ELSE ISqrt(x.n \div (x.d * f * f))
CeilDiv(x, f) ==
    IF x.r = 1 THEN CeilDivInt(x.n, x.d * f)
    ELSE CeilSqrt(CeilDivInt(x.n, x.d * f * f))
\* Python's round(number / f) for integers: round half to even
RoundDiv(number, f) ==
    LET q == number \div f
        m == number % f
    IN  IF 2 * m < f THEN q
        ELSE IF 2 * m > f THEN q + 1
        ELSE IF q % 2 = 0 THEN q ELSE q + 1

(***************************************************************************)
(* round_by_factor / ceil_by_factor / floor_by_factor                      *)
(***************************************************************************)
\* mutant: the multiplication by the factor is lost
round_by_factor_unscaled(number, f) == RoundDiv(number, f)

round_by_factor(number, f) == RoundDiv(number, f) * f

\* mutant: rounds down where the code rounds up
ceil_by_factor_down(x, f) == FloorDiv(x, f) * f

ceil_by_factor(x, f) == CeilDiv(x, f) * f

\* mutant: the multiplication by the factor is lost
floor_by_factor_unscaled(x, f) == FloorDiv(x, f)

floor_by_factor(x, f) == FloorDiv(x, f) * f

(***************************************************************************)
(* smart_resize                                                            *)
(***************************************************************************)
\* mutant: a ratio of exactly MAX_RATIO is rejected too
RatioTooLarge_inclusive(h, w) == Max(h, w) >= MAX_RATIO * Min(h, w)

\* max(height, width) / min(height, width) > MAX_RATIO
RatioTooLarge(h, w) == Max(h, w) > MAX_RATIO * Min(h, w)

\* minp and maxp are reals: fetch_video passes a quotient as max_pixels
smart_resize(h, w, f, minp, maxp) ==
    IF RatioTooLarge(h, w)
    THEN [status |-> "ValueError", branch |-> "ratio"]
    ELSE
      LET h_bar == Max(f, round_by_factor(h, f))
          w_bar == Max(f, round_by_factor(w, f))
      IN  IF RLess(maxp, IntR(h_bar * w_bar))
          THEN LET beta == Sqrt(IntDivReal(h * w, maxp))
               IN  [status |-> "ok", branch |-> "down",
                    h_bar |-> floor_by_factor(IntDivReal(h, beta), f),
                    w_bar |-> floor_by_factor(IntDivReal(w, beta), f)]
          ELSE IF RLess(IntR(h_bar * w_bar), minp)
          THEN LET beta == Sqrt(Rat(minp.n, minp.d * h * w))
               IN  [status |-> "ok", branch |-> "up",
                    h_bar |-> ceil_by_factor(IntMulReal(h, beta), f),
                    w_bar |-> ceil_by_factor(IntMulReal(w, beta), f)]
          ELSE [status |-> "ok", branch |-> "unchanged",
                h_bar |-> h_bar, w_bar |-> w_bar]

(***************************************************************************)
(* smart_nframes.  ele is a dict: a function whose domain is the set of    *)
(* keys present.                                                           *)
(***************************************************************************)
\* ele.get(key, default)
Get(e, key, default) == IF key \in DOMAIN e THEN e[key] ELSE default

\* mutant: the upper end of the interval is not tested
InFrameRange_noUpper(n, total) == FRAME_FACTOR <= n

\* FRAME_FACTOR <= nframes and nframes <= total_frames
InFrameRange(n, total) == FRAME_FACTOR <= n /\ n <= total

\* total_frames / video_fps * fps
RawFrames(e, total, vfps) == Rat(total * Get(e, "fps", FPS), vfps)

\* the fps branch: clamp, cap by total_frames, floor to FRAME_FACTOR
FpsFrames(e, total, vfps) ==
    LET min_frames == ceil_by_factor(IntR(Get(e, "min_frames", FPS_MIN_FRAMES)),
                                     FRAME_FACTOR)
        max_frames == floor_by_factor(
                          IntR(Get(e, "max_frames", Min(FPS_MAX_FRAMES, total))),
                          FRAME_FACTOR)
        nframes == RawFrames(e, total, vfps)
        clamped == RMin(RMin(RMax(nframes, IntR(min_frames)), IntR(max_frames)),
                        IntR(total))
    IN  floor_by_factor(clamped, FRAME_FACTOR)

smart_nframes(e, total, vfps) ==
    IF "fps" \in DOMAIN e /\ "nframes" \in DOMAIN e
    THEN [status |-> "AssertionError"]
    ELSE
      LET nframes == IF "nframes" \in DOMAIN e
                     THEN round_by_factor(e["nframes"], FRAME_FACTOR)
                     ELSE FpsFrames(e, total, vfps)
          warned == "nframes" \notin DOMAIN e
                    /\ RLess(IntR(total), RawFrames(e, total, vfps))
      IN  IF ~InFrameRange(nframes, total)
          THEN [status |-> "ValueError", nframes |-> nframes, warned |-> warned]
          ELSE [status |-> "ok", nframes |-> nframes, warned |-> warned]

(***************************************************************************)
(* torch.linspace(start, end, steps).round().long(): steps values from     *)
(* start to end inclusive, each rounded half to even.  For an even number  *)
(* of steps (every count smart_nframes returns) no value is a tie.         *)
(***************************************************************************)
RoundedLinspace(start, end, steps) ==
    IF steps = 1 THEN <<start>>
    ELSE [i \in 1 .. steps |->
             RoundDiv(start * (steps - 1) + (i - 1) * (end - start), steps - 1)]

\* mutant: the last index is total_frames, one past the last frame
FrameIndices_pastEnd(total, n) == RoundedLinspace(0, total, n)

\* torch.linspace(0, total_frames - 1, nframes).round().long()
FrameIndices(total, n) == RoundedLinspace(0, total - 1, n)

\* .unique().size(0)
UniqueCount(seq) == Cardinality({seq[i] : i \in DOMAIN seq})

(***************************************************************************)
(* torch.linspace in the default dtype, float32.  A single-precision value *)
(* x with 0 <= x < 2^24 is the record [int, frac], x = int + frac / 2^23:  *)
(* from one on, such a value has at most 23 fractional bits.  The values   *)
(* are computed as the CPU kernel does: step = (end - start) / (steps - 1),*)
(* start + step * i in the first half and end - step * (steps - 1 - i) in  *)
(* the second half, every operation rounded to nearest, ties to even.      *)
(***************************************************************************)
FractionBits == 23

RECURSIVE Pow2(_)
Pow2(k) == IF k = 0 THEN 1 ELSE 2 * Pow2(k - 1)

One == Pow2(FractionBits)

\* the number of binary digits of i >= 1
RECURSIVE BitLength(_)
BitLength(i) == IF i <= 1 THEN 1 ELSE 1 + BitLength(i \div 2)

\* the float32 nearest to int + (frac + num / den) / 2^23, num < den; below
\* one every multiple of 2^-23 is a float32
Round32(int, frac, num, den) ==
    IF int = 0 THEN [int |-> 0, frac |-> frac]
    ELSE
      LET unit == Pow2(BitLength(int) - 1)
          low == frac % unit
          above == IF unit = 1 THEN 2 * num > den
                   ELSE IF low = unit \div 2 THEN num > 0
                   ELSE low > unit \div 2
          tie == IF unit = 1 THEN 2 * num = den
                 ELSE low = unit \div 2 /\ num = 0
          odd == IF unit = One THEN int % 2 = 1 ELSE (frac \div unit) % 2 = 1
          kept == (frac - low) + (IF above \/ (tie /\ odd) THEN unit ELSE 0)
      IN  IF kept = One THEN [int |-> int + 1, frac |-> 0]
          ELSE [int |-> int, frac |-> kept]

\* the first digits binary digits of r / q, r < q, and what remains
RECURSIVE LongDivision(_, _, _, _)
LongDivision(r, q, digits, acc) ==
    IF digits = 0 THEN [quotient |-> acc, remainder |-> r]
    ELSE IF 2 * r >= q THEN LongDivision(2 * r - q, q, digits - 1, 2 * acc + 1)
    ELSE LongDivision(2 * r, q, digits - 1, 2 * acc)

\* p / q in float32, for integers p >= q > 0
Quotient32(p, q) ==
    LET d == LongDivision(p % q, q, FractionBits, 0)
    IN  Round32(p \div q, d.quotient, d.remainder, q)

\* x * k in float32, for an integer k >= 0: the product is formed exactly,
\* the fraction of x in two halves of 11 and 12 digits
Times32(x, k) ==
    LET lowDigits == Pow2(12)
        highDigits == Pow2(11)
        hi == x.frac \div lowDigits
        lo == x.frac % lowDigits
        carried == hi * k + (lo * k) \div lowDigits
    IN  Round32(x.int * k + carried \div highDigits,
                (carried % highDigits) * lowDigits + ((lo * k) % lowDigits), 0, 1)

\* end - y in float32, for an integer end >= y
Minus32(end, y) ==
    IF y.frac = 0 THEN Round32(end - y.int, 0, 0, 1)
    ELSE Round32(end - y.int - 1, One - y.frac, 0, 1)

\* .round(): to the nearest integer, ties to even; .long()
Round32ToLong(x) ==
    LET half == One \div 2
    IN  IF x.frac > half \/ (x.frac = half /\ x.int % 2 = 1) THEN x.int + 1
        ELSE x.int

\* torch.linspace(0, end, steps), 2 <= steps <= end + 1
Linspace32(end, steps) ==
    LET step == Quotient32(end, steps - 1)
        halfway == steps \div 2
    IN  [i \in 1 .. steps |->
            IF i - 1 < halfway THEN Times32(step, i - 1)
            ELSE Minus32(end, Times32(step, steps - i))]

\* torch.linspace(0, total_frames - 1, nframes).round().long() in float32
FrameIndices32(total, n) ==
    LET x == Linspace32(total - 1, n)
    IN  [i \in 1 .. n |-> Round32ToLong(x[i])]

(***************************************************************************)
(* The video readers.  A video file v is what the decoders report of it:   *)
(*   total_frames, video_fps  the frames and the rate torchvision and      *)
(*                            decord count                                 *)
(*   stream_frames            stream.frames of the PyAV container, 0 when  *)
(*                            the container does not record it             *)
(*   est_frames               int(duration * video_fps) of the PyAV        *)
(*                            stream, NoDuration when stream.duration is   *)
(*                            None                                         *)
(*   height, width            the size of a decoded frame                  *)
(* decodes is the outcome of the decoding library: FALSE when it raises.   *)
(***************************************************************************)
NoDuration == -1

HasRange(e) == "video_start" \in DOMAIN e \/ "video_end" \in DOMAIN e

Raised(error) == [status |-> error]

\* mutant: the quotient is inverted
GuardedSampleFps_inverted(n, total, vfps) == Rat(total * vfps, n)

\* nframes / max(total_frames, 1e-6) * video_fps
GuardedSampleFps(n, total, vfps) ==
    LET m == RMax(IntR(total), Rat(1, 1000000))
    IN  Rat(n * m.d * vfps, m.n)

\* nframes / total_frames * video_fps
SampleFps(n, total, vfps) == Rat(n * vfps, total)

Sampled(total, n, frames, fps, v) ==
    [status |-> "ok", total_frames |-> total, nframes |-> n, frames |-> frames,
     sample_fps |-> fps, height |-> v.height, width |-> v.width]

\* mutant: a count out of range is clamped into the range, not reported
read_video_torchvision_clamping(e, v, decodes) ==
    IF ~decodes THEN Raised("RuntimeError")
    ELSE
      LET c == smart_nframes(e, v.total_frames, v.video_fps)
          n == IF c.status = "ValueError"
               THEN Max(FRAME_FACTOR, Min(c.nframes, v.total_frames))
               ELSE c.nframes
      IN  IF c.status = "AssertionError" THEN Raised(c.status)
          ELSE Sampled(v.total_frames, n, Len(FrameIndices(v.total_frames, n)),
                       GuardedSampleFps(n, v.total_frames, v.video_fps), v)

read_video_torchvision(e, v, decodes) ==
    IF ~decodes THEN Raised("RuntimeError")
    ELSE
      LET c == smart_nframes(e, v.total_frames, v.video_fps)
      IN  IF c.status # "ok" THEN Raised(c.status)
          ELSE Sampled(v.total_frames, c.nframes,
                       Len(FrameIndices(v.total_frames, c.nframes)),
                       GuardedSampleFps(c.nframes, v.total_frames, v.video_fps), v)

read_video_decord(e, v, decodes) ==
    IF ~decodes THEN Raised("RuntimeError")
    ELSE IF HasRange(e) THEN Raised("NotImplementedError")
    ELSE
      LET c == smart_nframes(e, v.total_frames, v.video_fps)
      IN  IF c.status # "ok" THEN Raised(c.status)
          ELSE Sampled(v.total_frames, c.nframes,
                       Len(FrameIndices(v.total_frames, c.nframes)),
                       GuardedSampleFps(c.nframes, v.total_frames, v.video_fps), v)

\* total_frames as the PyAV reader determines it
PyavTotalFrames(v) ==
    IF v.stream_frames = 0 /\ v.est_frames # NoDuration
    THEN v.est_frames
    ELSE v.stream_frames

read_video_pyav(e, v, decodes) ==
    IF HasRange(e) THEN Raised("NotImplementedError")
    ELSE IF ~decodes THEN Raised("AVError")
    ELSE
      LET total == PyavTotalFrames(v)
      IN  IF ~(total > 0) THEN Raised("AssertionError")
          ELSE
            LET c == smart_nframes(e, total, v.video_fps)
            IN  IF c.status # "ok" THEN Raised(c.status)
                ELSE IF ~(total >= c.nframes) THEN Raised("AssertionError")
                ELSE
                  LET nframes_unique ==
                          UniqueCount(FrameIndices32(total, c.nframes))
                  IN  IF v.est_frames = NoDuration THEN Raised("TypeError")
                      ELSE IF nframes_unique = 1 THEN Raised("ZeroDivisionError")
                      ELSE Sampled(total, c.nframes, nframes_unique,
                                   SampleFps(c.nframes, total, v.video_fps), v)

\* VIDEO_READER_BACKENDS
Backends == {"decord", "torchvision", "pyav"}

ReadVideo(b, e, v, decodes) ==
    CASE b = "decord" -> read_video_decord(e, v, decodes)
      [] b = "torchvision" -> read_video_torchvision(e, v, decodes)
      [] b = "pyav" -> read_video_pyav(e, v, decodes)
      [] OTHER -> Raised("KeyError")

(***************************************************************************)
(* get_video_reader_backend and fetch_video (a video given by its path).   *)
(***************************************************************************)
NoForce == "None"

get_video_reader_backend(force, pyav, decord) ==
    IF force # NoForce THEN force
    ELSE IF pyav THEN "pyav"
    ELSE IF decord THEN "decord"
    ELSE "torchvision"

\* int(min_pixels * 1.05)
IntTimes105(x) == (x * 105) \div 100

\* mutant: the ceiling is applied last
PixelBound_ceilingLast(minp, total_pixels, nframes) ==
    RMin(IntR(VIDEO_MAX_PIXELS),
         RMax(Rat(total_pixels * FRAME_FACTOR, nframes), IntR(IntTimes105(minp))))

\* max(min(VIDEO_MAX_PIXELS, total_pixels / nframes * FRAME_FACTOR),
\*     int(min_pixels * 1.05))
PixelBound(minp, total_pixels, nframes) ==
    RMax(RMin(IntR(VIDEO_MAX_PIXELS), Rat(total_pixels * FRAME_FACTOR, nframes)),
         IntR(IntTimes105(minp)))

\* "resized_height" in ele and "resized_width" in ele
HasTargetSize(e) == "resized_height" \in DOMAIN e /\ "resized_width" \in DOMAIN e

\* mutant: the pixel hints of the element are passed on
TargetSize_withHints(e, f) ==
    smart_resize(e["resized_height"], e["resized_width"], f,
                 IntR(Get(e, "min_pixels", MIN_PIXELS)),
                 IntR(Get(e, "max_pixels", MAX_PIXELS)))

\* smart_resize(ele["resized_height"], ele["resized_width"], factor=f), with
\* the default min_pixels and max_pixels of smart_resize
TargetSize(e, f) ==
    smart_resize(e["resized_height"], e["resized_width"], f,
                 IntR(MIN_PIXELS), IntR(MAX_PIXELS))

\* the part of fetch_video after the reader returned r
ResizeVideo(e, r) ==
    LET nframes == r.frames
        minp == Get(e, "min_pixels", VIDEO_MIN_PIXELS)
        total_pixels == Get(e, "total_pixels", VIDEO_TOTAL_PIXELS)
        bound == PixelBound(minp, total_pixels, nframes)
        supposed == IF "max_pixels" \in DOMAIN e THEN IntR(e["max_pixels"]) ELSE bound
        maxp == RMin(supposed, bound)
        size == IF HasTargetSize(e)
                THEN TargetSize(e, IMAGE_FACTOR)
                ELSE smart_resize(r.height, r.width, IMAGE_FACTOR, IntR(minp), maxp)
    IN  IF size.status # "ok" THEN Raised(size.status)
        ELSE [status |-> "ok", frames |-> nframes, sample_fps |-> r.sample_fps,
              resized_height |-> size.h_bar, resized_width |-> size.w_bar,
              bound |-> bound, max_pixels |-> maxp,
              warned |-> RLess(bound, supposed)]

\* fetch_image once the image is loaded: size is the (height, width) of the
\* loaded image
ResizeImage(e, size, f) ==
    LET resized_size ==
            IF HasTargetSize(e) THEN TargetSize(e, f)
            ELSE smart_resize(size.height, size.width, f,
                              IntR(Get(e, "min_pixels", MIN_PIXELS)),
                              IntR(Get(e, "max_pixels", MAX_PIXELS)))
    IN  IF resized_size.status # "ok" THEN Raised(resized_size.status)
        ELSE [status |-> "ok", resized_height |-> resized_size.h_bar,
              resized_width |-> resized_size.w_bar]

(***************************************************************************)
(* State.                                                                  *)
(***************************************************************************)
VARIABLES
    height, width, factor, min_pixels, max_pixels,  \* arguments of smart_resize
    resized,                                        \* its outcome, "pending" before the call
    ele, total_frames, video_fps,                   \* arguments of smart_nframes
    counted,                                        \* its outcome
    recounted,                                      \* the outcome of smart_nframes on {nframes: n}
    nsamples, idx,                                  \* linspace: the number of samples, the indices
    video,                                          \* the video file behind ele["video"]
    reads,                                          \* the outcome of each reader on (ele, video)
    forced,                                         \* FORCE_QWENVL_VIDEO_READER
    pyav_available, decord_available,               \* is_pyav_available(), is_decord_available()
    backend_cache,                                  \* the lru_cache of get_video_reader_backend
    pc,                                             \* fetch_video: where the call stands
    backend,                                        \* fetch_video: video_reader_backend
    calls,                                          \* the reader invocations so far, in order
    warnings,                                       \* the warnings fetch_video has logged
    sampled,                                        \* fetch_video: what the reader returned
    fetched,                                        \* fetch_video: what the caller gets
    thread_pc,                                      \* get_video_reader_backend: where each thread's call stands
    thread_backend,                                 \* its local video_reader_backend
    returns,                                        \* the calls that returned, in order
    changed,                                        \* has the availability changed since the process started
    payload,                                        \* the conversations given to extract_vision_info
    extracted,                                      \* its outcome
    extracted_wrapped,                              \* its outcome on [payload], payload being one conversation
    return_video_kwargs,                            \* process_vision_info: its second argument
    ppc,                                            \* process_vision_info: where the call stands
    vision_infos, cursor,                           \* the extracted elements, the one the loop is at
    image_inputs, video_inputs,                     \* the results gathered so far
    video_sample_fps_list,                          \* the sample fps gathered so far
    fetches,                                        \* the calls of fetch_image and fetch_video, in order
    batch,                                          \* what the caller of process_vision_info gets
    image_size,                                     \* fetch_image: the size of the loaded image
    image_fetched,                                  \* fetch_image: what the caller gets
    pyav_pc,                                        \* _read_video_pyav: where the call stands
    container,                                      \* its local container
    opens, closes,                                  \* the calls of av.open that returned, of container.close
    pyav_total_frames, pyav_nframes,                \* its locals total_frames, nframes
    nframes_unique,                                 \* its local nframes_unique
    frames,                                         \* the length of its list frames
    pyav_result                                     \* what the caller gets

resizeVars == <<height, width, factor, min_pixels, max_pixels, resized>>
nframesVars == <<ele, total_frames, video_fps, counted, recounted>>
indexVars == <<nsamples, idx>>
readerVars == <<video, reads>>
selectVars == <<forced, pyav_available, decord_available, backend_cache>>
fetchVars == <<pc, backend, calls, warnings, sampled, fetched>>
threadVars == <<thread_pc, thread_backend, returns, changed>>
extractVars == <<payload, extracted, extracted_wrapped>>
processVars == <<return_video_kwargs, ppc, vision_infos, cursor, image_inputs,
                 video_inputs, video_sample_fps_list, fetches, batch>>
imageVars == <<image_size, image_fetched>>
pyavVars == <<pyav_pc, container, opens, closes, pyav_total_frames, pyav_nframes,
              nframes_unique, frames, pyav_result>>
laterVars == <<threadVars, extractVars, processVars, imageVars, pyavVars>>
outsidePyav == <<resizeVars, nframesVars, indexVars, readerVars, selectVars, fetchVars,
                 threadVars, extractVars, processVars, imageVars>>
vars == <<resizeVars, nframesVars, indexVars, readerVars, selectVars, fetchVars,
          laterVars>>

Pending == [status |-> "pending"]
Unused == [status |-> "unused"]

\* the variables of smart_resize in a specification that does not call it
IdleResize ==
    /\ height = 0 /\ width = 0 /\ factor = 0
    /\ min_pixels = 0 /\ max_pixels = 0 /\ resized = Unused

\* the variables of smart_nframes in a specification that does not call it
IdleNframes ==
    /\ ele = <<>> /\ total_frames = 0 /\ video_fps = 0
    /\ counted = Unused /\ recounted = Unused

\* the variables of the index selection in a specification without it
IdleIndices == nsamples = 0 /\ idx = Unused

NoCache == "empty"

\* the variables of the readers and of fetch_video where neither runs
IdleReaders == video = Unused /\ reads = Unused
IdleFetch ==
    /\ forced = NoForce /\ pyav_available = TRUE /\ decord_available = FALSE
    /\ backend_cache = NoCache
    /\ pc = "unused" /\ backend = NoCache /\ calls = <<>> /\ warnings = 0
    /\ sampled = Unused /\ fetched = Unused

\* the variables of the threads calling get_video_reader_backend where none runs
IdleThreads ==
    /\ thread_pc = Unused /\ thread_backend = Unused
    /\ returns = <<>> /\ changed = FALSE

\* the variables of extract_vision_info in a specification that does not call it
IdleExtract == payload = Unused /\ extracted = Unused /\ extracted_wrapped = Unused

\* the variables of process_vision_info in a specification that does not call it
IdleProcess ==
    /\ return_video_kwargs = FALSE /\ ppc = "unused"
    /\ vision_infos = <<>> /\ cursor = 0
    /\ image_inputs = <<>> /\ video_inputs = <<>> /\ video_sample_fps_list = <<>>
    /\ fetches = <<>> /\ batch = Unused

\* the variables of fetch_image in a specification that does not call it
IdleImage == image_size = Unused /\ image_fetched = Unused

IdlePyav ==
    /\ pyav_pc = "idle" /\ container = "unbound" /\ opens = 0 /\ closes = 0
    /\ pyav_total_frames = 0 /\ pyav_nframes = 0 /\ nframes_unique = 0
    /\ frames = 0 /\ pyav_result = Unused

IdleLater == IdleThreads /\ IdleExtract /\ IdleProcess /\ IdleImage /\ IdlePyav

\* heights and widths: small ones and the ones around the ratio ceiling
Dims == (1 .. MaxDim) \cup
        {MAX_RATIO - 1, MAX_RATIO, MAX_RATIO + 1,
         2 * MAX_RATIO - 1, 2 * MAX_RATIO, 2 * MAX_RATIO + 1}

(***************************************************************************)
(* SpecResize: one call of smart_resize on each input of the bounded sets. *)
(***************************************************************************)
InitResize ==
    /\ height \in Dims
    /\ width \in Dims
    /\ factor \in 1 .. MaxFactor
    /\ min_pixels \in 0 .. MaxPixels
    /\ max_pixels \in 1 .. MaxPixels
    /\ resized = Pending
    /\ IdleNframes
    /\ IdleIndices
    /\ IdleReaders
    /\ IdleFetch
    /\ IdleLater

SmartResize ==
    /\ resized = Pending
    /\ resized' = smart_resize(height, width, factor,
                                IntR(min_pixels), IntR(max_pixels))
    /\ UNCHANGED <<height, width, factor, min_pixels, max_pixels>>
    /\ UNCHANGED <<nframesVars, indexVars, readerVars, selectVars, fetchVars>>
    /\ UNCHANGED laterVars

NextResize == SmartResize

SpecResize == InitResize /\ [][NextResize]_vars

Area(r) == r.h_bar * r.w_bar

\* C1: both dimensions smart_resize returns are exact integer multiples of
\* factor, in each of its three branches (unchanged, scaled down, scaled up).
C1_DimsMultipleOfFactor ==
    resized.status = "ok" =>
        /\ resized.branch \in {"unchanged", "down", "up"}
        /\ resized.h_bar % factor = 0
        /\ resized.w_bar % factor = 0

\* the scale-down branch returned two non-zero dimensions for a factor above 1
C1_Witness ==
    /\ resized.status = "ok"
    /\ resized.branch = "down"
    /\ factor > 1
    /\ min_pixels <= max_pixels
    /\ resized.h_bar >= 2 * factor
    /\ resized.w_bar >= factor

\* C2: for min_pixels <= max_pixels the returned area lies in
\* [min_pixels, max_pixels], at most one factor^2 step outside; the scale-up
\* branch never ends above max_pixels and the scale-down branch never ends
\* below min_pixels.
C2_AreaWithinBudget ==
    (resized.status = "ok" /\ min_pixels <= max_pixels) =>
        /\ Area(resized) >= min_pixels - factor * factor
        /\ Area(resized) <= max_pixels + factor * factor
        /\ resized.branch = "up" => Area(resized) <= max_pixels
        /\ resized.branch = "down" => Area(resized) >= min_pixels

\* C3: every dimension smart_resize returns is at least factor, never 0, also
\* after the scale-down branch has floored both dimensions.
C3_DimsAtLeastFactor ==
    resized.status = "ok" =>
        /\ resized.h_bar >= factor
        /\ resized.w_bar >= factor

\* C4: smart_resize fails with the aspect-ratio error exactly when the longer
\* side is more than MAX_RATIO times the shorter one (a ratio of exactly
\* MAX_RATIO is accepted), whatever factor, min_pixels and max_pixels are, and
\* a failed call returns no dimensions.
C4_RatioErrorIff ==
    resized # Pending =>
        /\ resized.status = "ValueError"
             <=> (height > 200 * width \/ width > 200 * height)
        /\ resized.status = "ValueError" => DOMAIN resized = {"status", "branch"}
        /\ resized.status # "ValueError" =>
               /\ resized.status = "ok"
               /\ {"h_bar", "w_bar"} \subseteq DOMAIN resized

\* the call failed on a ratio just above the ceiling
C4_Witness ==
    /\ resized.status = "ValueError"
    /\ Max(height, width) = 200 * Min(height, width) + 1

(***************************************************************************)
(* SpecNframes: one call of smart_nframes on each policy, then a second    *)
(* call with the explicit policy {nframes: n} on the count it returned.    *)
(***************************************************************************)
\* every dict over the given keys with integer values
Dicts(keys, values) == UNION {[ks -> values] : ks \in SUBSET keys}

FrameCounts == (0 .. MaxFrames) \cup {FPS_MAX_FRAMES}
ExplicitPolicies == {[nframes |-> n] : n \in FrameCounts}
FpsPolicies ==
    {f @@ mn @@ mx :
        f \in Dicts({"fps"}, 1 .. MaxFps),
        mn \in Dicts({"min_frames"}, 0 .. MaxFrames),
        mx \in Dicts({"max_frames"}, FrameCounts)}
\* both keys given: the assertion of smart_nframes fails
BothPolicies == {[nframes |-> FRAME_FACTOR, fps |-> FPS]}
Policies == ExplicitPolicies \cup FpsPolicies \cup BothPolicies

TotalFrames == (0 .. MaxTotal) \cup {100, 300}
VideoFps == (1 .. MaxFps) \cup {30}

InitNframes ==
    /\ ele \in Policies
    /\ total_frames \in TotalFrames
    /\ video_fps \in VideoFps
    /\ counted = Pending
    /\ recounted = Pending
    /\ IdleResize
    /\ IdleIndices
    /\ IdleReaders
    /\ IdleFetch
    /\ IdleLater

SmartNframes ==
    /\ counted = Pending
    /\ counted' = smart_nframes(ele, total_frames, video_fps)
    /\ UNCHANGED <<ele, total_frames, video_fps, recounted>>
    /\ UNCHANGED <<resizeVars, indexVars, readerVars, selectVars, fetchVars>>
    /\ UNCHANGED laterVars

Renormalize ==
    /\ counted.status = "ok"
    /\ recounted = Pending
    /\ recounted' = smart_nframes([nframes |-> counted.nframes],
                                  total_frames, video_fps)
    /\ UNCHANGED <<ele, total_frames, video_fps, counted>>
    /\ UNCHANGED <<resizeVars, indexVars, readerVars, selectVars, fetchVars>>
    /\ UNCHANGED laterVars

NextNframes == SmartNframes \/ Renormalize

SpecNframes == InitNframes /\ [][NextNframes]_vars

OnePolicy == ~("fps" \in DOMAIN ele /\ "nframes" \in DOMAIN ele)
FpsPolicy == "nframes" \notin DOMAIN ele

\* C5: for an explicit or an fps policy, smart_nframes either returns a
\* multiple n of FRAME_FACTOR with FRAME_FACTOR <= n <= total_frames or raises
\* the out-of-range error; it returns no n above total_frames, below
\* FRAME_FACTOR, or odd.
C5_ReturnedCountInRange ==
    (counted # Pending /\ OnePolicy) =>
        /\ counted.status \in {"ok", "ValueError"}
        /\ counted.status = "ok" =>
              /\ counted.nframes % 2 = 0
              /\ 2 <= counted.nframes
              /\ counted.nframes <= total_frames
        /\ counted.status = "ValueError" =>
              (counted.nframes < 2 \/ counted.nframes > total_frames)

\* an fps policy whose raw estimate was clamped returned a count
C5_Witness ==
    /\ counted.status = "ok"
    /\ FpsPolicy
    /\ "max_frames" \in DOMAIN ele
    /\ ele["max_frames"] > total_frames
    /\ counted.nframes = total_frames

\* the rounded bounds and the orders "n <= x" and "x < n + 2" for
\* x = min(max(raw, lo), hi) and for x capped by total_frames, written out on
\* integers
LoFrames == LET m == Get(ele, "min_frames", 4) IN m + (m % 2)
HiFrames == LET m == Get(ele, "max_frames", Min(768, total_frames)) IN m - (m % 2)
AtMostRaw(n) == n * video_fps <= total_frames * Get(ele, "fps", 2)
AtMostClamp(n) == (AtMostRaw(n) \/ n <= LoFrames) /\ n <= HiFrames
FloorOfClamp(n) == n % 2 = 0 /\ AtMostClamp(n) /\ ~AtMostClamp(n + 2)
AtMostCapped(n) == AtMostClamp(n) /\ n <= total_frames
FloorOfCapped(n) == n % 2 = 0 /\ AtMostCapped(n) /\ ~AtMostCapped(n + 2)

IsExample ==
    /\ total_frames = 100 /\ video_fps = 30
    /\ ele = [fps |-> 2, min_frames |-> 4, max_frames |-> 768]

\* C6 as stated: under an fps policy the count smart_nframes returns is
\* clamp(raw, lo, hi) floored to a multiple of 2, for every min_frames and
\* max_frames; the example (100, 30, fps 2, 4, 768) gives 6.
C6_FloorOfClampedRaw ==
    (counted.status = "ok" /\ FpsPolicy) =>
        /\ FloorOfClamp(counted.nframes)
        /\ IsExample => counted = [status |-> "ok", nframes |-> 6, warned |-> FALSE]

\* C6 as amended: under an fps policy the count smart_nframes computes, and
\* returns when it is in range, is min(clamp(raw, lo, hi), total_frames)
\* floored to a multiple of 2; the example gives 6.
C6_FloorOfCappedClamp ==
    (counted # Pending /\ FpsPolicy) =>
        /\ FloorOfCapped(counted.nframes)
        /\ IsExample => counted = [status |-> "ok", nframes |-> 6, warned |-> FALSE]

\* a returned count that the cap by total_frames, not the clamp, decided
C6_Witness ==
    /\ counted.status = "ok"
    /\ FpsPolicy
    /\ ~FloorOfClamp(counted.nframes)
    /\ {"min_frames", "max_frames"} \subseteq DOMAIN ele
    /\ ele["min_frames"] > ele["max_frames"]

\* C7: when smart_nframes returns n, calling it with {nframes: n} and the same
\* total_frames returns n again and does not raise.
C7_Idempotent ==
    recounted # Pending =>
        /\ recounted.status = "ok"
        /\ recounted.nframes = counted.nframes

\* the re-normalised count came from the fps path
C7_Witness ==
    /\ recounted.status = "ok"
    /\ FpsPolicy
    /\ "fps" \in DOMAIN ele
    /\ counted.nframes > 2

(***************************************************************************)
(* SpecIndices: the index list of the readers, for every total_frames and  *)
(* every number of samples the range test of smart_nframes lets through.   *)
(***************************************************************************)
InitIndices ==
    /\ total_frames \in {t \in TotalFrames : t >= FRAME_FACTOR /\ t <= 100}
    /\ nsamples \in FRAME_FACTOR .. total_frames
    /\ idx = Pending
    /\ ele = <<>> /\ video_fps = 0 /\ counted = Unused /\ recounted = Unused
    /\ IdleResize
    /\ IdleReaders
    /\ IdleFetch
    /\ IdleLater

SelectIndices ==
    /\ idx = Pending
    /\ idx' = FrameIndices(total_frames, nsamples)
    /\ UNCHANGED <<nsamples, resizeVars, nframesVars>>
    /\ UNCHANGED <<readerVars, selectVars, fetchVars>>
    /\ UNCHANGED laterVars

NextIndices == SelectIndices

SpecIndices == InitIndices /\ [][NextIndices]_vars

\* C8: for 2 <= n <= total_frames the rounded linspace(0, total_frames - 1, n)
\* has exactly n entries, starts at 0, ends at total_frames - 1, is
\* non-decreasing and stays within [0, total_frames - 1]; for
\* n = total_frames it is exactly 0, 1, ..., total_frames - 1.
C8_IndexList ==
    idx # Pending =>
        /\ Len(idx) = nsamples
        /\ idx[1] = 0
        /\ idx[nsamples] = total_frames - 1
        /\ \A i \in 1 .. nsamples - 1 : idx[i] <= idx[i + 1]
        /\ \A i \in 1 .. nsamples : 0 <= idx[i] /\ idx[i] <= total_frames - 1
        /\ nsamples = total_frames => idx = [i \in 1 .. total_frames |-> i - 1]

\* ten samples of a ten-frame video were selected
C8_Witness ==
    /\ idx # Pending
    /\ total_frames = 10
    /\ nsamples = 10
    /\ idx = <<0, 1, 2, 3, 4, 5, 6, 7, 8, 9>>

(***************************************************************************)
(* SpecReaders: each of the three readers is run once on the same element  *)
(* and the same video file; the decoding library may fail under each.      *)
(***************************************************************************)
\* the elements of a video given by its path: the sampling policy and,
\* for one of them, a start time
Elements ==
    {e \in Policies : DOMAIN e \subseteq {"nframes", "fps"}}
        \cup {[nframes |-> 20], [video_start |-> 0]}

VideoFrames == (0 .. MaxVideoFrames) \cup {300}

\* what the PyAV container reports of a video of t frames
PyavReports(t) ==
    {<<t, t>>, <<t, NoDuration>>, <<0, t>>, <<0, NoDuration>>}
        \cup (IF t > 0 THEN {<<0, t - 1>>} ELSE {})

FrameSizes == {<<4, 6>>, <<1, MAX_RATIO + 1>>}

Videos ==
    UNION {{[total_frames |-> t, video_fps |-> f, stream_frames |-> m[1],
             est_frames |-> m[2], height |-> sz[1], width |-> sz[2]] :
               f \in VideoFps, m \in PyavReports(t), sz \in FrameSizes} :
           t \in VideoFrames}

InitReaders ==
    /\ ele \in Elements
    /\ video \in Videos
    /\ reads = [b \in Backends |-> Pending]
    /\ total_frames = 0 /\ video_fps = 0 /\ counted = Unused /\ recounted = Unused
    /\ IdleResize
    /\ IdleIndices
    /\ IdleFetch
    /\ IdleLater

Read(b, decodes) ==
    /\ reads[b] = Pending
    /\ reads' = [reads EXCEPT ![b] = ReadVideo(b, ele, video, decodes)]
    /\ UNCHANGED <<video, resizeVars, nframesVars, indexVars, selectVars, fetchVars>>
    /\ UNCHANGED laterVars

ReadTorchvision == \E decodes \in BOOLEAN : Read("torchvision", decodes)
ReadDecord == \E decodes \in BOOLEAN : Read("decord", decodes)
ReadPyav == \E decodes \in BOOLEAN : Read("pyav", decodes)

NextReaders == ReadTorchvision \/ ReadDecord \/ ReadPyav

SpecReaders == InitReaders /\ [][NextReaders]_vars

Returned(b) == reads[b].status = "ok"

ForcedNames == {NoForce} \cup Backends \cup {"opencv"}

\* mutant: the failed reader is tried again
FallbackBackend_sameAgain == backend

\* VIDEO_READER_BACKENDS["torchvision"], the reader of the except branch
FallbackBackend == "torchvision"

Init ==
    /\ ele \in Elements
    /\ video \in Videos
    /\ forced \in ForcedNames
    /\ pyav_available \in BOOLEAN
    /\ decord_available \in BOOLEAN
    /\ backend_cache = NoCache
    /\ pc = "start"
    /\ backend = NoCache
    /\ calls = <<>>
    /\ warnings = 0
    /\ sampled = Pending
    /\ fetched = Pending
    /\ reads = Unused
    /\ total_frames = 0 /\ video_fps = 0 /\ counted = Unused /\ recounted = Unused
    /\ IdleResize
    /\ IdleIndices
    /\ IdleLater

Invocation(b, r) == [backend |-> b, ele |-> ele, status |-> r.status]

\* video_reader_backend = get_video_reader_backend()
GetBackend ==
    /\ pc = "start"
    /\ backend_cache' =
          IF backend_cache = NoCache
          THEN get_video_reader_backend(forced, pyav_available, decord_available)
          ELSE backend_cache
    /\ backend' = backend_cache'
    /\ pc' = "call"
    /\ UNCHANGED <<forced, pyav_available, decord_available>>
    /\ UNCHANGED <<calls, warnings, sampled, fetched>>
    /\ UNCHANGED <<resizeVars, nframesVars, indexVars, readerVars>>
    /\ UNCHANGED laterVars

\* the try block: VIDEO_READER_BACKENDS[video_reader_backend](ele).  A name
\* the dict does not hold raises KeyError before any reader is invoked.
CallSelected ==
    /\ pc = "call"
    /\ \E decodes \in BOOLEAN :
          IF backend \notin Backends
          THEN /\ warnings' = warnings + 1
               /\ pc' = "fallback"
               /\ UNCHANGED <<calls, sampled>>
          ELSE LET r == ReadVideo(backend, ele, video, decodes)
               IN  /\ calls' = Append(calls, Invocation(backend, r))
                   /\ IF r.status = "ok"
                      THEN /\ sampled' = r
                           /\ pc' = "resize"
                           /\ UNCHANGED warnings
                      ELSE /\ warnings' = warnings + 1
                           /\ pc' = "fallback"
                           /\ UNCHANGED sampled
    /\ UNCHANGED <<backend, fetched, selectVars>>
    /\ UNCHANGED <<resizeVars, nframesVars, indexVars, readerVars>>
    /\ UNCHANGED laterVars

\* the except branch: VIDEO_READER_BACKENDS["torchvision"](ele)
CallFallback ==
    /\ pc = "fallback"
    /\ \E decodes \in BOOLEAN :
          LET r == ReadVideo(FallbackBackend, ele, video, decodes)
          IN  /\ calls' = Append(calls, Invocation(FallbackBackend, r))
              /\ IF r.status = "ok"
                 THEN /\ sampled' = r
                      /\ pc' = "resize"
                      /\ UNCHANGED fetched
                 ELSE /\ fetched' = Raised(r.status)
                      /\ pc' = "raised"
                      /\ UNCHANGED sampled
    /\ UNCHANGED <<backend, warnings, selectVars>>
    /\ UNCHANGED <<resizeVars, nframesVars, indexVars, readerVars>>
    /\ UNCHANGED laterVars

\* the pixel bound, smart_resize and the resize of the frames
Resize ==
    /\ pc = "resize"
    /\ fetched' = ResizeVideo(ele, sampled)
    /\ pc' = IF fetched'.status = "ok" THEN "done" ELSE "raised"
    /\ UNCHANGED <<backend, calls, warnings, sampled, selectVars>>
    /\ UNCHANGED <<resizeVars, nframesVars, indexVars, readerVars>>
    /\ UNCHANGED laterVars

Next == GetBackend \/ CallSelected \/ CallFallback \/ Resize

Spec == Init /\ [][Next]_vars

AfterTry == pc \in {"fallback", "resize", "done", "raised"}
AfterReaders == pc \in {"resize", "done", "raised"}

\* what C10 says of the fallback, whichever reader was selected
FallbackOnce ==
    /\ Len(calls) <= 2
    /\ (Len(calls) >= 1 /\ calls[1].status = "ok") => Len(calls) = 1
    /\ Len(calls) = 2 =>
          /\ calls[1].status # "ok"
          /\ calls[2].backend = "torchvision"
          /\ calls[2].ele = ele
          /\ warnings = 1
    /\ (AfterReaders /\ Len(calls) >= 1 /\ calls[1].backend = backend
          /\ calls[1].status # "ok") => Len(calls) = 2
    /\ (AfterReaders /\ calls[Len(calls)].status # "ok") =>
          /\ pc = "raised"
          /\ fetched = Raised(calls[Len(calls)].status)
    /\ (AfterReaders /\ calls[Len(calls)].status = "ok") => sampled.status = "ok"

\* C10 as stated: fetch_video invokes the selected backend exactly once; if
\* that call succeeds no other reader is invoked; if it raises, torchvision
\* is invoked exactly once with the same element after a warning; if that
\* raises too the error reaches the caller; never more than two invocations.
C10_SelectedOnceThenFallback ==
    /\ AfterTry =>
          /\ Len(calls) >= 1
          /\ calls[1].backend = backend
          /\ calls[1].ele = ele
    /\ pc \in {"start", "call"} => calls = <<>>
    /\ AfterTry => FallbackOnce

\* C10 as amended: the selected backend is invoked exactly once when its name
\* is one of the registered readers; a forced name that is not registered
\* fails the lookup, no reader is invoked for it and torchvision is invoked
\* exactly once after the warning.  The rest is as stated.
C10_RegisteredOnceThenFallback ==
    /\ (AfterTry /\ backend \in Backends) =>
          /\ Len(calls) >= 1
          /\ calls[1].backend = backend
          /\ calls[1].ele = ele
    /\ (AfterTry /\ backend \notin Backends) =>
          /\ warnings = 1
          /\ pc = "fallback" => calls = <<>>
          /\ AfterReaders =>
                /\ Len(calls) = 1
                /\ calls[1].backend = "torchvision"
                /\ calls[1].ele = ele
    /\ pc \in {"start", "call"} => calls = <<>>
    /\ AfterTry => FallbackOnce

\* the selected pyav reader raised, torchvision raised too and the caller got
\* the error
C10_Witness ==
    /\ pc = "raised"
    /\ backend = "pyav"
    /\ Len(calls) = 2
    /\ calls[1].backend = "pyav"
    /\ calls[2].backend = "torchvision"
    /\ fetched.status = "RuntimeError"

\* total_frames as reader b determines it of the video v
ObservedTotal(b, v) == IF b = "pyav" THEN PyavTotalFrames(v) ELSE v.total_frames

\* the selected reader was invoked and raised the frame-count error of
\* smart_nframes
SelectedCountError ==
    /\ Len(calls) >= 1
    /\ calls[1].backend = backend
    /\ calls[1].status = "ValueError"
    /\ smart_nframes(ele, ObservedTotal(backend, video), video.video_fps).status
          = "ValueError"

\* C11: when the frame count computed inside the selected backend is outside
\* [FRAME_FACTOR, total_frames] and the fallback observes the same
\* total_frames and video_fps, fetch_video returns no video for the element:
\* after the warning the fallback is run once, and the caller gets the
\* frame-count error (or the decoder's error when the fallback cannot decode
\* the file); the error is never swallowed.
C11_FrameCountErrorPropagates ==
    (AfterReaders /\ SelectedCountError
        /\ ObservedTotal(backend, video) = ObservedTotal(FallbackBackend, video)) =>
        /\ pc = "raised"
        /\ sampled = Pending
        /\ warnings = 1
        /\ Len(calls) = 2
        /\ calls[2].backend = "torchvision"
        /\ calls[2].status \in {"ValueError", "RuntimeError"}
        /\ fetched = Raised(calls[2].status)

\* decord computed a count out of range, torchvision computed it again and
\* the caller got the frame-count error
C11_Witness ==
    /\ pc = "raised"
    /\ backend = "decord"
    /\ SelectedCountError
    /\ Len(calls) = 2
    /\ calls[2].status = "ValueError"
    /\ fetched = Raised("ValueError")

(***************************************************************************)
(* SpecBackend: threads of one process call get_video_reader_backend, which *)
(* lru_cache(maxsize=1) wraps: a call looks the cache up; on a miss it     *)
(* runs the function with the cache unlocked and stores its result unless  *)
(* another call has stored one meanwhile; it returns its own result.  The  *)
(* import system may gain or lose av and decord at any time.               *)
(***************************************************************************)
Threads == 1 .. MaxThreads

\* mutant: a result computed on a miss replaces the one already stored
StoredName_overwrite(cache, result) == result

\* the cache after a call that missed stores its result
StoredName(cache, result) == IF cache = NoCache THEN result ELSE cache

InitBackend ==
    /\ forced \in ForcedNames
    /\ pyav_available \in BOOLEAN
    /\ decord_available \in BOOLEAN
    /\ backend_cache = NoCache
    /\ thread_pc = [t \in Threads |-> "idle"]
    /\ thread_backend = [t \in Threads |-> NoCache]
    /\ returns = <<>>
    /\ changed = FALSE
    /\ pc = "unused" /\ backend = NoCache /\ calls = <<>> /\ warnings = 0
    /\ sampled = Unused /\ fetched = Unused
    /\ IdleResize
    /\ IdleNframes
    /\ IdleIndices
    /\ IdleReaders
    /\ IdleExtract
    /\ IdleProcess
    /\ IdleImage
    /\ IdlePyav

\* the calls made so far: the ones that returned and the ones under way
Started == Len(returns) + Cardinality({t \in Threads : thread_pc[t] # "idle"})

At(t, place) == thread_pc' = [thread_pc EXCEPT ![t] = place]
Decided(t, name) ==
    /\ thread_backend' = [thread_backend EXCEPT ![t] = name]
    /\ At(t, "store")

\* the wrapper's lookup: a hit returns the stored name
Lookup(t) ==
    /\ thread_pc[t] = "idle"
    /\ Started < MaxCalls
    /\ IF backend_cache # NoCache
       THEN /\ returns' = Append(returns, [name |-> backend_cache, hit |-> TRUE])
            /\ UNCHANGED thread_pc
       ELSE /\ At(t, "forced")
            /\ UNCHANGED returns
    /\ UNCHANGED <<thread_backend, changed, selectVars>>
    /\ UNCHANGED <<resizeVars, nframesVars, indexVars, readerVars, fetchVars>>
    /\ UNCHANGED <<extractVars, processVars, imageVars, pyavVars>>

\* if FORCE_QWENVL_VIDEO_READER is not None
TestForced(t) ==
    /\ thread_pc[t] = "forced"
    /\ IF forced # NoForce
       THEN Decided(t, forced)
       ELSE At(t, "pyav") /\ UNCHANGED thread_backend
    /\ UNCHANGED <<returns, changed, selectVars>>
    /\ UNCHANGED <<resizeVars, nframesVars, indexVars, readerVars, fetchVars>>
    /\ UNCHANGED <<extractVars, processVars, imageVars, pyavVars>>

\* elif is_pyav_available()
TestPyav(t) ==
    /\ thread_pc[t] = "pyav"
    /\ IF pyav_available
       THEN Decided(t, "pyav")
       ELSE At(t, "decord") /\ UNCHANGED thread_backend
    /\ UNCHANGED <<returns, changed, selectVars>>
    /\ UNCHANGED <<resizeVars, nframesVars, indexVars, readerVars, fetchVars>>
    /\ UNCHANGED <<extractVars, processVars, imageVars, pyavVars>>

\* elif is_decord_available() ... else
TestDecord(t) ==
    /\ thread_pc[t] = "decord"
    /\ Decided(t, IF decord_available THEN "decord" ELSE "torchvision")
    /\ UNCHANGED <<returns, changed, selectVars>>
    /\ UNCHANGED <<resizeVars, nframesVars, indexVars, readerVars, fetchVars>>
    /\ UNCHANGED <<extractVars, processVars, imageVars, pyavVars>>

\* return video_reader_backend, through the wrapper
StoreAndReturn(t) ==
    /\ thread_pc[t] = "store"
    /\ backend_cache' = StoredName(backend_cache, thread_backend[t])
    /\ returns' = Append(returns, [name |-> thread_backend[t], hit |-> FALSE])
    /\ At(t, "idle")
    /\ UNCHANGED <<thread_backend, changed, forced, pyav_available, decord_available>>
    /\ UNCHANGED <<resizeVars, nframesVars, indexVars, readerVars, fetchVars>>
    /\ UNCHANGED <<extractVars, processVars, imageVars, pyavVars>>

\* av or decord is installed or removed
ChangeAvailability ==
    /\ \E p, d \in BOOLEAN :
          /\ <<p, d>> # <<pyav_available, decord_available>>
          /\ pyav_available' = p
          /\ decord_available' = d
    /\ changed' = TRUE
    /\ UNCHANGED <<thread_pc, thread_backend, returns, forced, backend_cache>>
    /\ UNCHANGED <<resizeVars, nframesVars, indexVars, readerVars, fetchVars>>
    /\ UNCHANGED <<extractVars, processVars, imageVars, pyavVars>>

NextBackend ==
    \/ \E t \in Threads :
          Lookup(t) \/ TestForced(t) \/ TestPyav(t) \/ TestDecord(t)
              \/ StoreAndReturn(t)
    \/ ChangeAvailability

SpecBackend == InitBackend /\ [][NextBackend]_vars

\* what C12 says of the decision itself
DecisionByPriority ==
    /\ forced # NoForce => \A i \in 1 .. Len(returns) : returns[i].name = forced
    /\ forced = NoForce =>
          \A i \in 1 .. Len(returns) :
              returns[i].name \in {"pyav", "decord", "torchvision"}
    /\ ~changed =>
          \A i \in 1 .. Len(returns) :
              returns[i].name =
                  (IF forced # NoForce THEN forced
                   ELSE IF pyav_available THEN "pyav"
                   ELSE IF decord_available THEN "decord"
                   ELSE "torchvision")

List(items) == [list |-> items]
Str(chars) == [str |-> chars]
IsList(x) == DOMAIN x = {"list"}
IsStr(x) == DOMAIN x = {"str"}
\* isinstance(x, dict), x being a list, a string or a dict
IsDict(x) == ~IsList(x) /\ ~IsStr(x)

MediaKeys == {"image", "image_url", "video"}
MediaTypes == {"image", "image_url", "video"}

\* the test of the innermost loop; ele["type"] is evaluated only when none
\* of the three keys is present, and raises KeyError when type is absent too
SelectionOf(e) ==
    IF DOMAIN e \cap MediaKeys # {} THEN "selected"
    ELSE IF "type" \notin DOMAIN e THEN "KeyError"
    ELSE IF e["type"] \in MediaTypes THEN "selected"
    ELSE "skipped"

RECURSIVE ScanContent(_, _, _)
\* for ele in message["content"], from the i-th element on
ScanContent(content, i, infos) ==
    IF i > Len(content) THEN [status |-> "ok", vision_infos |-> infos]
    ELSE LET sel == SelectionOf(content[i])
         IN  IF sel = "KeyError" THEN Raised("KeyError")
             ELSE ScanContent(content, i + 1,
                              IF sel = "selected" THEN Append(infos, content[i])
                              ELSE infos)

RECURSIVE ScanMessages(_, _, _)
\* for message in conversation, from the j-th message on
ScanMessages(conversation, j, infos) ==
    IF j > Len(conversation) THEN [status |-> "ok", vision_infos |-> infos]
    ELSE LET content == conversation[j]["content"]
             scanned == IF IsList(content) THEN ScanContent(content.list, 1, infos)
                        ELSE [status |-> "ok", vision_infos |-> infos]
         IN  IF scanned.status # "ok" THEN scanned
             ELSE ScanMessages(conversation, j + 1, scanned.vision_infos)

RECURSIVE ScanConversations(_, _, _)
\* for conversation in conversations, from the k-th conversation on
ScanConversations(conversations, k, infos) ==
    IF k > Len(conversations) THEN [status |-> "ok", vision_infos |-> infos]
    ELSE LET scanned == ScanMessages(conversations[k].list, 1, infos)
         IN  IF scanned.status # "ok" THEN scanned
             ELSE ScanConversations(conversations, k + 1, scanned.vision_infos)

\* conversations[0] raises IndexError on an empty list
extract_vision_info(conversations) ==
    IF Len(conversations.list) = 0 THEN Raised("IndexError")
    ELSE ScanConversations(IF IsDict(conversations.list[1])
                           THEN <<conversations>>
                           ELSE conversations.list,
                           1, <<>>)

(***************************************************************************)
(* Payloads.  The i-th content element of a payload refers to the source   *)
(* i, so that no two elements of a payload are equal.  A payload is built  *)
(* from a script: the kind of each element and where it goes (the message  *)
(* of the element before it, a new message, a new conversation).           *)
(***************************************************************************)
ElementOf(kind, i) ==
    CASE kind = "image" -> [type |-> "image", image |-> i]
      [] kind = "image_url" -> [image_url |-> i]
      [] kind = "video" -> [type |-> "video", video |-> i]
      [] kind = "tagged" -> [type |-> "image", min_pixels |-> i]
      [] kind = "text" -> [type |-> "text", text |-> i]
      [] kind = "untyped" -> [text |-> i]

ElementKinds == {"image", "image_url", "video", "tagged", "text", "untyped"}
\* a message whose content is a string, not a list
StringMessage == "string"
Cuts == {"same", "message", "conversation"}

Message(content) == [role |-> "user", content |-> content]

\* the conversations after the item it of the script, the i-th one, is added
AddItem(convs, it, i) ==
    LET fresh == IF it.kind = StringMessage THEN Message(Str("hello"))
                 ELSE Message(List(<<ElementOf(it.kind, i)>>))
        k == Len(convs)
        last == IF k = 0 THEN <<>> ELSE convs[k]
        m == Len(last)
        joins == /\ it.cut = "same" /\ it.kind # StringMessage
                 /\ m > 0 /\ IsList(last[m]["content"])
    IN  IF k = 0 \/ it.cut = "conversation" THEN Append(convs, <<fresh>>)
        ELSE IF joins
        THEN [convs EXCEPT ![k] = [last EXCEPT ![m] =
                 Message(List(Append(last[m]["content"].list,
                                     ElementOf(it.kind, i))))]]
        ELSE [convs EXCEPT ![k] = Append(last, fresh)]

RECURSIVE Built(_, _, _)
Built(script, i, convs) ==
    IF i > Len(script) THEN convs
    ELSE Built(script, i + 1, AddItem(convs, script[i], i))

Items == [kind : ElementKinds \cup {StringMessage}, cut : Cuts]
\* the first item opens the first conversation whatever its cut
FirstItems == {it \in Items : it.cut = "conversation"}

\* one conversation as a flat list of messages, or a list of conversations
PayloadsOf(script) ==
    LET convs == Built(script, 1, <<>>)
    IN  {List([k \in 1 .. Len(convs) |-> List(convs[k])])}
            \cup (IF Len(convs) = 1 THEN {List(convs[1])} ELSE {})

\* payload is built from a script of one item (a payload holds at least one
\* message) to MaxElements items
IsPayload ==
    \E n \in 1 .. MaxElements :
        \E first \in FirstItems, rest \in [1 .. n - 1 -> Items] :
            payload \in PayloadsOf(<<first>> \o rest)

\* a flat list of messages
IsConversation(p) == IF Len(p.list) = 0 THEN TRUE ELSE IsDict(p.list[1])

(***************************************************************************)
(* SpecExtract: extract_vision_info on a payload, and on the payload       *)
(* wrapped in a one-element list when it is a single conversation.         *)
(***************************************************************************)
InitExtract ==
    /\ IsPayload
    /\ extracted = Pending
    /\ extracted_wrapped = Pending
    /\ IdleResize
    /\ IdleNframes
    /\ IdleIndices
    /\ IdleReaders
    /\ IdleFetch
    /\ IdleThreads
    /\ IdleProcess
    /\ IdleImage
    /\ IdlePyav

Extract ==
    /\ extracted = Pending
    /\ extracted' = extract_vision_info(payload)
    /\ UNCHANGED <<payload, extracted_wrapped, threadVars, processVars, imageVars, pyavVars>>
    /\ UNCHANGED <<resizeVars, nframesVars, indexVars, readerVars, selectVars, fetchVars>>

ExtractWrapped ==
    /\ extracted_wrapped = Pending
    /\ IsConversation(payload)
    /\ extracted_wrapped' = extract_vision_info(List(<<payload>>))
    /\ UNCHANGED <<payload, extracted, threadVars, processVars, imageVars, pyavVars>>
    /\ UNCHANGED <<resizeVars, nframesVars, indexVars, readerVars, selectVars, fetchVars>>

NextExtract == Extract \/ ExtractWrapped

SpecExtract == InitExtract /\ [][NextExtract]_vars

\* the conversations of a payload, and the content elements of all their
\* messages
ConversationsOf(p) == IF IsConversation(p) THEN <<p>> ELSE p.list
ContentElements(p) ==
    UNION {UNION {IF IsList(c.list[j]["content"])
                  THEN {c.list[j]["content"].list[i] :
                            i \in 1 .. Len(c.list[j]["content"].list)}
                  ELSE {} :
                  j \in 1 .. Len(c.list)} :
           c \in {ConversationsOf(p)[k] : k \in 1 .. Len(ConversationsOf(p))}}

\* an image or video reference: one of the three keys, or one of the three
\* type tags
IsReference(e) ==
    \/ DOMAIN e \cap {"image", "image_url", "video"} # {}
    \/ IF "type" \in DOMAIN e THEN e["type"] \in {"image", "image_url", "video"}
       ELSE FALSE

\* the source an element refers to: its place in the order of appearance
SourceOf(e) ==
    IF "image" \in DOMAIN e THEN e["image"]
    ELSE IF "image_url" \in DOMAIN e THEN e["image_url"]
    ELSE IF "video" \in DOMAIN e THEN e["video"]
    ELSE IF "min_pixels" \in DOMAIN e THEN e["min_pixels"]
    ELSE e["text"]

\* infos holds exactly the references of p, each once, in order of appearance
ExactlyTheReferences(infos, p) ==
    /\ {infos[i] : i \in 1 .. Len(infos)} = {e \in ContentElements(p) : IsReference(e)}
    /\ Len(infos) = Cardinality({e \in ContentElements(p) : IsReference(e)})
    /\ \A a, b \in 1 .. Len(infos) : a < b => SourceOf(infos[a]) < SourceOf(infos[b])

ImageThenVideo ==
    List(<<Message(List(<<ElementOf("image", 1)>>)),
           Message(List(<<ElementOf("video", 2)>>))>>)

\* C13: extract_vision_info returns exactly the content elements that are
\* image or video references, in order of appearance, none dropped,
\* duplicated or reordered; a single conversation gives the same result as
\* the conversation wrapped in a one-element list; one image and one video
\* in two messages give [image, video].
C13_ExactlyTheReferencesInOrder ==
    /\ extracted # Pending =>
          /\ extracted.status = "ok"
          /\ ExactlyTheReferences(extracted.vision_infos, payload)
    /\ (extracted # Pending /\ extracted_wrapped # Pending) =>
          extracted_wrapped = extracted
    /\ (extracted # Pending /\ payload = ImageThenVideo) =>
          extracted = [status |-> "ok",
                       vision_infos |-> <<ElementOf("image", 1), ElementOf("video", 2)>>]

(***************************************************************************)
(* SpecProcess: one call of process_vision_info.  fetch_image and          *)
(* fetch_video are seen from their caller: each either returns the result  *)
(* of the element it was given (fetch_video with the sample fps of the     *)
(* video) or raises.                                                       *)
(***************************************************************************)
None == [none |-> TRUE]

\* what fetch_image and fetch_video return for an element
FetchedImage(info) == [image_of |-> info]
FetchedVideo(info) == [video_of |-> info]
\* the sample fps fetch_video may report
SampleRates == {1, 2}
ImageErrors == {"OSError"}
VideoErrors == {"ValueError", "RuntimeError"}

RaisedBy(error, function) == [status |-> error, raised_by |-> function]

\* the branch of the loop body an element takes
DispatchOf(info) ==
    IF "image" \in DOMAIN info \/ "image_url" \in DOMAIN info THEN "fetch_image"
    ELSE IF "video" \in DOMAIN info THEN "fetch_video"
    ELSE "ValueError"

\* mutant: an empty list is returned as it is
NoneIfEmpty_keepEmpty(inputs) == List(inputs)

\* if len(inputs) == 0: inputs = None
NoneIfEmpty(inputs) == IF Len(inputs) = 0 THEN None ELSE List(inputs)

\* the tuple process_vision_info returns
BatchOf(images, videos, rates, kwargs) ==
    IF kwargs
    THEN [status |-> "ok", image_inputs |-> NoneIfEmpty(images),
          video_inputs |-> NoneIfEmpty(videos), video_kwargs |-> [fps |-> rates]]
    ELSE [status |-> "ok", image_inputs |-> NoneIfEmpty(images),
          video_inputs |-> NoneIfEmpty(videos)]

\* mutant: the loop stops at the element and what was gathered is returned
Unrecognized_partial(images, videos, rates, kwargs) ==
    BatchOf(images, videos, rates, kwargs)

\* raise ValueError("image, image_url or video should in content.")
Unrecognized(images, videos, rates, kwargs) ==
    RaisedBy("ValueError", "process_vision_info")

InitProcess ==
    /\ IsPayload
    /\ return_video_kwargs \in BOOLEAN
    /\ ppc = "extract"
    /\ vision_infos = <<>>
    /\ cursor = 0
    /\ image_inputs = <<>>
    /\ video_inputs = <<>>
    /\ video_sample_fps_list = <<>>
    /\ fetches = <<>>
    /\ batch = Pending
    /\ extracted = Unused /\ extracted_wrapped = Unused
    /\ IdleResize
    /\ IdleNframes
    /\ IdleIndices
    /\ IdleReaders
    /\ IdleFetch
    /\ IdleThreads
    /\ IdleImage
    /\ IdlePyav

\* vision_infos = extract_vision_info(conversations)
ExtractInfos ==
    /\ ppc = "extract"
    /\ LET r == extract_vision_info(payload)
       IN  IF r.status = "ok"
           THEN /\ vision_infos' = r.vision_infos
                /\ cursor' = 1
                /\ ppc' = "loop"
                /\ UNCHANGED batch
           ELSE /\ batch' = RaisedBy(r.status, "extract_vision_info")
                /\ ppc' = "raised"
                /\ UNCHANGED <<vision_infos, cursor>>
    /\ UNCHANGED <<payload, extracted, extracted_wrapped, return_video_kwargs>>
    /\ UNCHANGED <<image_inputs, video_inputs, video_sample_fps_list, fetches>>
    /\ UNCHANGED <<resizeVars, nframesVars, indexVars, readerVars, selectVars,
                   fetchVars, threadVars, imageVars, pyavVars>>

Here == vision_infos[cursor]
InLoop == ppc = "loop" /\ cursor <= Len(vision_infos)

\* image_inputs.append(fetch_image(vision_info))
DispatchImage ==
    /\ InLoop
    /\ DispatchOf(Here) = "fetch_image"
    /\ \/ /\ image_inputs' = Append(image_inputs, FetchedImage(Here))
          /\ fetches' = Append(fetches, [ele |-> Here, status |-> "ok"])
          /\ cursor' = cursor + 1
          /\ UNCHANGED <<ppc, batch>>
       \/ \E error \in ImageErrors :
             /\ fetches' = Append(fetches, [ele |-> Here, status |-> error])
             /\ batch' = RaisedBy(error, "fetch_image")
             /\ ppc' = "raised"
             /\ UNCHANGED <<image_inputs, cursor>>
    /\ UNCHANGED <<payload, extracted, extracted_wrapped, return_video_kwargs>>
    /\ UNCHANGED <<vision_infos, video_inputs, video_sample_fps_list>>
    /\ UNCHANGED <<resizeVars, nframesVars, indexVars, readerVars, selectVars,
                   fetchVars, threadVars, imageVars, pyavVars>>

\* video_input, video_sample_fps = fetch_video(vision_info, ...) and the
\* two appends
DispatchVideo ==
    /\ InLoop
    /\ DispatchOf(Here) = "fetch_video"
    /\ \/ \E rate \in SampleRates :
             /\ video_sample_fps_list' = Append(video_sample_fps_list, rate)
             /\ video_inputs' = Append(video_inputs, FetchedVideo(Here))
             /\ fetches' = Append(fetches, [ele |-> Here, status |-> "ok",
                                            sample_fps |-> rate])
             /\ cursor' = cursor + 1
             /\ UNCHANGED <<ppc, batch>>
       \/ \E error \in VideoErrors :
             /\ fetches' = Append(fetches, [ele |-> Here, status |-> error])
             /\ batch' = RaisedBy(error, "fetch_video")
             /\ ppc' = "raised"
             /\ UNCHANGED <<video_inputs, video_sample_fps_list, cursor>>
    /\ UNCHANGED <<payload, extracted, extracted_wrapped, return_video_kwargs>>
    /\ UNCHANGED <<vision_infos, image_inputs>>
    /\ UNCHANGED <<resizeVars, nframesVars, indexVars, readerVars, selectVars,
                   fetchVars, threadVars, imageVars, pyavVars>>

\* the else branch of the loop body
DispatchUnrecognized ==
    /\ InLoop
    /\ DispatchOf(Here) = "ValueError"
    /\ batch' = Unrecognized(image_inputs, video_inputs, video_sample_fps_list,
                             return_video_kwargs)
    /\ ppc' = IF batch'.status = "ok" THEN "done" ELSE "raised"
    /\ UNCHANGED <<payload, extracted, extracted_wrapped, return_video_kwargs>>
    /\ UNCHANGED <<vision_infos, cursor, image_inputs, video_inputs,
                   video_sample_fps_list, fetches>>
    /\ UNCHANGED <<resizeVars, nframesVars, indexVars, readerVars, selectVars,
                   fetchVars, threadVars, imageVars, pyavVars>>

\* after the loop: the empty lists become None, the tuple is returned
ReturnBatch ==
    /\ ppc = "loop"
    /\ cursor > Len(vision_infos)
    /\ batch' = BatchOf(image_inputs, video_inputs, video_sample_fps_list,
                        return_video_kwargs)
    /\ ppc' = "done"
    /\ UNCHANGED <<payload, extracted, extracted_wrapped, return_video_kwargs>>
    /\ UNCHANGED <<vision_infos, cursor, image_inputs, video_inputs,
                   video_sample_fps_list, fetches>>
    /\ UNCHANGED <<resizeVars, nframesVars, indexVars, readerVars, selectVars,
                   fetchVars, threadVars, imageVars, pyavVars>>

NextProcess ==
    \/ ExtractInfos
    \/ DispatchImage
    \/ DispatchVideo
    \/ DispatchUnrecognized
    \/ ReturnBatch

SpecProcess == InitProcess /\ [][NextProcess]_vars

\* the image and the video references of a payload: the elements with an
\* image or image_url key, and the other elements with a video key
ImageRefs(p) ==
    {e \in ContentElements(p) : DOMAIN e \cap {"image", "image_url"} # {}}
VideoRefs(p) ==
    {e \in ContentElements(p) :
        "video" \in DOMAIN e /\ DOMAIN e \cap {"image", "image_url"} = {}}

ReferenceOf(result) ==
    IF "image_of" \in DOMAIN result THEN result.image_of ELSE result.video_of

\* inputs is None when there is no reference; otherwise it is the list of
\* the results of the references, one each, in order of appearance
ResultsInOrder(inputs, refs) ==
    /\ inputs = None <=> refs = {}
    /\ inputs # None =>
          /\ Len(inputs.list) = Cardinality(refs)
          /\ {ReferenceOf(inputs.list[i]) : i \in 1 .. Len(inputs.list)} = refs
          /\ \A a, b \in 1 .. Len(inputs.list) :
                a < b => SourceOf(ReferenceOf(inputs.list[a]))
                            < SourceOf(ReferenceOf(inputs.list[b]))

\* the sample fps fetch_video returned for the element e
ReportedRate(e, rate) ==
    \E k \in 1 .. Len(fetches) :
        /\ fetches[k].ele = e
        /\ fetches[k].status = "ok"
        /\ fetches[k].sample_fps = rate

\* C14: when process_vision_info succeeds, the image sequence holds the
\* results of the image references in order of appearance, the video
\* sequence those of the video references in order of appearance, the fps
\* list has one entry per video reference, the i-th being the sample fps of
\* the i-th video, and a sequence is None exactly when the payload has no
\* reference of its type.
C14_BatchAlignedWithPayload ==
    batch.status = "ok" =>
        /\ ResultsInOrder(batch.image_inputs, ImageRefs(payload))
        /\ \A e \in ImageRefs(payload) :
              batch.image_inputs # None =>
                  \E i \in 1 .. Len(batch.image_inputs.list) :
                      batch.image_inputs.list[i] = FetchedImage(e)
        /\ ResultsInOrder(batch.video_inputs, VideoRefs(payload))
        /\ return_video_kwargs <=> "video_kwargs" \in DOMAIN batch
        /\ return_video_kwargs =>
              LET rates == batch.video_kwargs.fps
              IN  /\ Len(rates) = Cardinality(VideoRefs(payload))
                  /\ batch.video_inputs # None =>
                        \A i \in 1 .. Len(rates) :
                            ReportedRate(batch.video_inputs.list[i].video_of, rates[i])

\* a video, an image and a second video, the videos at different rates
C14_Witness ==
    /\ batch.status = "ok"
    /\ return_video_kwargs
    /\ batch.image_inputs # None
    /\ batch.video_inputs # None
    /\ Len(batch.video_inputs.list) = 2
    /\ batch.video_kwargs.fps = <<2, 1>>
    /\ SourceOf(batch.video_inputs.list[1].video_of)
          < SourceOf(batch.image_inputs.list[1].image_of)

\* an element without any of the keys image, image_url, video
Unrecognizable(e) == DOMAIN e \cap {"image", "image_url", "video"} = {}

\* the call ended while the loop was at an element
EndedAt(i) == ppc \in {"done", "raised"} /\ cursor = i /\ i <= Len(vision_infos)

\* C15: process_vision_info fails with the unrecognized-media error whenever
\* the loop reaches a content element with none of the keys image,
\* image_url, video; it never returns a batch that omits such an element,
\* and the error comes with no partial batch.
C15_UnrecognizedElementRaises ==
    /\ \A i \in 1 .. Len(vision_infos) :
          Unrecognizable(vision_infos[i]) =>
              /\ cursor <= i
              /\ batch.status # "ok"
              /\ EndedAt(i) =>
                    /\ ppc = "raised"
                    /\ batch = [status |-> "ValueError",
                                raised_by |-> "process_vision_info"]
    /\ batch.status = "ok" =>
          {e \in ContentElements(payload) : IsReference(e) /\ Unrecognizable(e)} = {}

\* the error was raised after an image and a video had been fetched
C15_Witness ==
    /\ ppc = "raised"
    /\ batch = [status |-> "ValueError", raised_by |-> "process_vision_info"]
    /\ Len(image_inputs) = 1
    /\ Len(video_inputs) = 1
    /\ cursor = 3

(***************************************************************************)
(* SpecSize: the output resolution of one reference with resize hints.     *)
(* For a video reference, fetch_video from the point where the torchvision *)
(* reader has returned the frames; for an image reference, fetch_image.    *)
(***************************************************************************)
UnitPixels == IMAGE_FACTOR * IMAGE_FACTOR

\* the values of the hints min_pixels, max_pixels and total_pixels
PixelHints == {k * UnitPixels : k \in 1 .. MaxHint} \cup {VIDEO_MAX_PIXELS}
MaxPixelHints == PixelHints \cup {MAX_PIXELS}
TotalPixelHints == {k * UnitPixels : k \in 1 .. MaxHint}
\* the values of resized_height and of resized_width
TargetHeights == {k * (IMAGE_FACTOR \div 2) : k \in 1 .. MaxHint}
TargetWidths == TargetHeights \cup {MAX_RATIO * IMAGE_FACTOR}

ImageHints ==
    {a @@ b @@ c @@ d :
        a \in Dicts({"min_pixels"}, PixelHints),
        b \in Dicts({"max_pixels"}, MaxPixelHints),
        c \in Dicts({"resized_height"}, TargetHeights),
        d \in Dicts({"resized_width"}, TargetWidths)}
VideoHints ==
    {h @@ t : h \in ImageHints, t \in Dicts({"total_pixels"}, TotalPixelHints)}

\* the (height, width) of the frames of a video, or of an image
NativeSizes ==
    {[height |-> 4, width |-> 6], [height |-> 28, width |-> 28],
     [height |-> 56, width |-> 42], [height |-> 1, width |-> MAX_RATIO + 1]}

\* a video of n frames of the given size
VideoOf(n, size) ==
    [total_frames |-> n, video_fps |-> FPS, stream_frames |-> n, est_frames |-> n,
     height |-> size.height, width |-> size.width]

SampledCounts == {FRAME_FACTOR * k : k \in 1 .. MaxHint}

InitVideoSize ==
    /\ \E h \in VideoHints, n \in SampledCounts :
          ele = h @@ [video |-> "path", nframes |-> n]
    /\ \E size \in NativeSizes : video = VideoOf(ele["nframes"], size)
    /\ sampled = read_video_torchvision(ele, video, TRUE)
    /\ forced = "torchvision" /\ pyav_available = TRUE /\ decord_available = FALSE
    /\ backend_cache = "torchvision"
    /\ backend = "torchvision"
    /\ calls = <<Invocation("torchvision", sampled)>>
    /\ warnings = 0
    /\ pc = "resize"
    /\ fetched = Pending
    /\ IdleImage

InitImageSize ==
    /\ \E h \in ImageHints : ele = h @@ [image |-> "path"]
    /\ image_size \in NativeSizes
    /\ image_fetched = Pending
    /\ video = Unused
    /\ IdleFetch

InitSize ==
    /\ InitVideoSize \/ InitImageSize
    /\ reads = Unused
    /\ total_frames = 0 /\ video_fps = 0 /\ counted = Unused /\ recounted = Unused
    /\ IdleResize
    /\ IdleIndices
    /\ IdleThreads
    /\ IdleExtract
    /\ IdleProcess
    /\ IdlePyav

\* what loading the image does: it is opened, or opening it raises, or the
\* reference is a data URI without base64 data
Loads == {"ok", "OSError", "ValueError"}

FetchImage ==
    /\ image_fetched = Pending
    /\ \E loaded \in Loads :
          image_fetched' = IF loaded # "ok" THEN RaisedBy(loaded, "Image.open")
                           ELSE ResizeImage(ele, image_size, IMAGE_FACTOR)
    /\ UNCHANGED <<image_size, resizeVars, nframesVars, indexVars, readerVars>>
    /\ UNCHANGED <<selectVars, fetchVars, threadVars, extractVars, processVars>>
    /\ UNCHANGED pyavVars

NextSize == Resize \/ FetchImage

SpecSize == InitSize /\ [][NextSize]_vars

\* the dict e without the key k
Without(e, k) == [x \in DOMAIN e \ {k} |-> e[x]]

\* int(min_pixels * 1.05) of the element, as a real
FloorPixels == IntR((Get(ele, "min_pixels", VIDEO_MIN_PIXELS) * 105) \div 100)
CeilingPixels == IntR(VIDEO_MAX_PIXELS)
VideoDone == pc \in {"done", "raised"} /\ "video" \in DOMAIN ele
CallerAbove(bound) ==
    "max_pixels" \in DOMAIN ele /\ RLess(bound, IntR(ele["max_pixels"]))

\* what C16 says of the max_pixels passed on and of the warning, B being
\* the bound fetch_video computed
PassedAndWarned(B) ==
    /\ fetched.max_pixels =
          (IF "max_pixels" \in DOMAIN ele
           THEN RMin(IntR(ele["max_pixels"]), B) ELSE B)
    /\ RLeq(fetched.max_pixels, B)
    /\ fetched.warned <=> CallerAbove(B)
    /\ fetched.warned => fetched.max_pixels = B

\* a caller max_pixels above the bound changes nothing but the warning: the
\* call ends as it does without the hint
OnlyAWarning ==
    LET plain == ResizeVideo(Without(ele, "max_pixels"), sampled)
    IN  (VideoDone /\ "max_pixels" \in DOMAIN ele /\ plain.status = "ok"
            /\ RLess(plain.bound, IntR(ele["max_pixels"]))) =>
            fetched = [plain EXCEPT !.warned = TRUE]

\* C16 as stated: the bound B of fetch_video satisfies
\* int(min_pixels * 1.05) <= B <= VIDEO_MAX_PIXELS for every nframes,
\* total_pixels and min_pixels; the max_pixels passed to smart_resize is
\* min(caller max_pixels, B), never above B; a caller max_pixels above B
\* causes a warning only.
C16_BoundBetweenFloorAndCeiling ==
    /\ (VideoDone /\ fetched.status = "ok") =>
          /\ RLeq(FloorPixels, fetched.bound)
          /\ RLeq(fetched.bound, CeilingPixels)
          /\ PassedAndWarned(fetched.bound)
    /\ OnlyAWarning

\* C16 as amended: int(min_pixels * 1.05) <= B always, and
\* B <= VIDEO_MAX_PIXELS when int(min_pixels * 1.05) <= VIDEO_MAX_PIXELS;
\* otherwise B = int(min_pixels * 1.05), above VIDEO_MAX_PIXELS.  The rest
\* is as stated.
C16_BoundAtLeastFloor ==
    /\ (VideoDone /\ fetched.status = "ok") =>
          /\ RLeq(FloorPixels, fetched.bound)
          /\ RLeq(FloorPixels, CeilingPixels) => RLeq(fetched.bound, CeilingPixels)
          /\ RLess(CeilingPixels, FloorPixels) => fetched.bound = FloorPixels
          /\ PassedAndWarned(fetched.bound)
    /\ OnlyAWarning

\* min_pixels puts the floor above VIDEO_MAX_PIXELS, the caller's max_pixels
\* is above the bound: a warning, and the bound is passed on
C16_Witness ==
    /\ VideoDone
    /\ fetched.status = "ok"
    /\ RLess(CeilingPixels, fetched.bound)
    /\ CallerAbove(fetched.bound)
    /\ fetched.warned
    /\ fetched.max_pixels = fetched.bound

\* the resolution smart_resize gives for the two target values alone
ResolutionOf(h, w) ==
    LET size == smart_resize(h, w, 28, IntR(MIN_PIXELS), IntR(MAX_PIXELS))
    IN  IF size.status = "ok" THEN <<"ok", size.h_bar, size.w_bar>>
        ELSE <<size.status>>
Resolution(outcome) ==
    IF outcome.status = "ok"
    THEN <<"ok", outcome.resized_height, outcome.resized_width>>
    ELSE <<outcome.status>>
TargetKeys == {"resized_height", "resized_width"}
\* fetch_image ended, and not in loading the image
ImageLoaded ==
    /\ "image" \in DOMAIN ele
    /\ image_fetched # Pending
    /\ "raised_by" \notin DOMAIN image_fetched

\* C17: with both resized_height and resized_width the output resolution of
\* fetch_image and of fetch_video is the one smart_resize gives for the two
\* values and the factor, whatever the native size and the hints
\* min_pixels, max_pixels, total_pixels are; with one of the two keys only,
\* the key is ignored and the pixel-budget path is used.
C17_TargetSizeTakesPrecedence ==
    /\ (VideoDone /\ TargetKeys \subseteq DOMAIN ele) =>
          Resolution(fetched)
              = ResolutionOf(ele["resized_height"], ele["resized_width"])
    /\ (ImageLoaded /\ TargetKeys \subseteq DOMAIN ele) =>
          Resolution(image_fetched)
              = ResolutionOf(ele["resized_height"], ele["resized_width"])
    /\ \A k \in TargetKeys :
          (VideoDone /\ DOMAIN ele \cap TargetKeys = {k}) =>
              fetched = ResizeVideo(Without(ele, k), sampled)
    /\ \A k \in TargetKeys :
          (ImageLoaded /\ DOMAIN ele \cap TargetKeys = {k}) =>
              image_fetched = ResizeImage(Without(ele, k), image_size, IMAGE_FACTOR)

\* a video whose frames the pixel-budget path rejects, resized to the target
\* values although a min_pixels hint would give another size
C17_Witness ==
    /\ VideoDone
    /\ fetched.status = "ok"
    /\ TargetKeys \subseteq DOMAIN ele
    /\ "min_pixels" \in DOMAIN ele
    /\ video.width = MAX_RATIO + 1
    /\ fetched.resized_height = 56
    /\ ele["resized_height"] = 28
    /\ ResizeVideo(Without(ele, "resized_height"), sampled).status = "ValueError"

(***************************************************************************)
(* SpecPyav: one call of _read_video_pyav, statement by statement.  What   *)
(* the PyAV library does (av.open, the streams of the container, seek and  *)
(* decode) is the choice of the environment.                               *)
(***************************************************************************)
\* a video of some minutes, and the request of nearly every frame of it
LongVideoFrames == 4097
LongVideoSamples == 4096
LongVideo == VideoOf(LongVideoFrames, [height |-> 4, width |-> 6])
LongSampling == [nframes |-> LongVideoSamples]

PyavInputs ==
    {<<e, v>> : e \in Elements, v \in Videos} \cup {<<LongSampling, LongVideo>>}

InitPyav ==
    /\ \E c \in PyavInputs : ele = c[1] /\ video = c[2]
    /\ pyav_pc = "start"
    /\ container = "unbound"
    /\ opens = 0 /\ closes = 0
    /\ pyav_total_frames = 0 /\ pyav_nframes = 0 /\ nframes_unique = 0
    /\ frames = 0
    /\ pyav_result = Pending
    /\ reads = Unused
    /\ total_frames = 0 /\ video_fps = 0 /\ counted = Unused /\ recounted = Unused
    /\ IdleResize
    /\ IdleIndices
    /\ IdleFetch
    /\ IdleThreads
    /\ IdleExtract
    /\ IdleProcess
    /\ IdleImage

\* an exception is raised inside the try statement
RaiseInTry(error) ==
    /\ pyav_pc' = "except"
    /\ pyav_result' = Raised(error)

\* the except clauses: IndexError becomes ValueError, the others are raised
\* again
Handled(error) == IF error = "IndexError" THEN "ValueError" ELSE error

\* mutant: the container is never found open
IsOpen_never(c) == FALSE

\* if container: an open container is true, None is not
IsOpen(c) == c = "open"

\* the video_start / video_end test, then container = None
PyavEnter ==
    /\ pyav_pc = "start"
    /\ IF HasRange(ele)
       THEN /\ pyav_pc' = "raised"
            /\ pyav_result' = Raised("NotImplementedError")
            /\ UNCHANGED container
       ELSE /\ pyav_pc' = "open"
            /\ container' = "None"
            /\ UNCHANGED pyav_result
    /\ UNCHANGED <<opens, closes, pyav_total_frames, pyav_nframes, nframes_unique, frames>>
    /\ UNCHANGED outsidePyav

OpenOutcomes == {"ok", "AVError", "FileNotFoundError"}

\* container = av.open(video_path)
PyavOpen ==
    /\ pyav_pc = "open"
    /\ \E outcome \in OpenOutcomes :
          IF outcome = "ok"
          THEN /\ container' = "open"
               /\ opens' = opens + 1
               /\ pyav_pc' = "stream"
               /\ UNCHANGED pyav_result
          ELSE /\ RaiseInTry(outcome)
               /\ UNCHANGED <<container, opens>>
    /\ UNCHANGED <<closes, pyav_total_frames, pyav_nframes, nframes_unique, frames>>
    /\ UNCHANGED outsidePyav

\* stream = container.streams.video[0], total_frames and its assertion
PyavStream ==
    /\ pyav_pc = "stream"
    /\ \E has_video \in BOOLEAN :
          IF ~has_video
          THEN RaiseInTry("IndexError") /\ UNCHANGED pyav_total_frames
          ELSE IF ~(PyavTotalFrames(video) > 0)
          THEN RaiseInTry("AssertionError") /\ UNCHANGED pyav_total_frames
          ELSE /\ pyav_total_frames' = PyavTotalFrames(video)
               /\ pyav_pc' = "count"
               /\ UNCHANGED pyav_result
    /\ UNCHANGED <<container, opens, closes, pyav_nframes, nframes_unique, frames>>
    /\ UNCHANGED outsidePyav

\* smart_nframes, the assertion, nframes_unique, video_seconds and
\* sample_interval
PyavCount ==
    /\ pyav_pc = "count"
    /\ LET c == smart_nframes(ele, pyav_total_frames, video.video_fps)
       IN  IF c.status # "ok"
           THEN RaiseInTry(c.status) /\ UNCHANGED <<pyav_nframes, nframes_unique>>
           ELSE IF ~(pyav_total_frames >= c.nframes)
           THEN RaiseInTry("AssertionError") /\ UNCHANGED <<pyav_nframes, nframes_unique>>
           ELSE
             /\ pyav_nframes' = c.nframes
             /\ nframes_unique' =
                    UniqueCount(FrameIndices32(pyav_total_frames, c.nframes))
             /\ IF video.est_frames = NoDuration THEN RaiseInTry("TypeError")
                ELSE IF nframes_unique' = 1 THEN RaiseInTry("ZeroDivisionError")
                ELSE pyav_pc' = "loop" /\ UNCHANGED pyav_result
    /\ UNCHANGED <<container, opens, closes, pyav_total_frames, frames>>
    /\ UNCHANGED outsidePyav

DecodeOutcomes == {"ok", "AVError", "StopIteration"}

\* one turn of the loop: container.seek, decode, frames.append
PyavDecode ==
    /\ pyav_pc = "loop"
    /\ frames < nframes_unique
    /\ \E outcome \in DecodeOutcomes :
          IF outcome = "ok"
          THEN /\ frames' = frames + 1
               /\ UNCHANGED <<pyav_pc, pyav_result>>
          ELSE RaiseInTry(outcome) /\ UNCHANGED frames
    /\ UNCHANGED <<container, opens, closes, pyav_total_frames, pyav_nframes, nframes_unique>>
    /\ UNCHANGED outsidePyav

\* after the loop: torch.stack, sample_fps, the assertion, return
PyavReturn ==
    /\ pyav_pc = "loop"
    /\ frames = nframes_unique
    /\ pyav_result' = Sampled(pyav_total_frames, pyav_nframes, frames,
                              SampleFps(pyav_nframes, pyav_total_frames,
                                        video.video_fps), video)
    /\ pyav_pc' = "finally"
    /\ UNCHANGED <<container, opens, closes, pyav_total_frames, pyav_nframes,
                   nframes_unique, frames>>
    /\ UNCHANGED outsidePyav

\* the except clause that matches
PyavExcept ==
    /\ pyav_pc = "except"
    /\ pyav_result' = Raised(Handled(pyav_result.status))
    /\ pyav_pc' = "finally"
    /\ UNCHANGED <<container, opens, closes, pyav_total_frames, pyav_nframes,
                   nframes_unique, frames>>
    /\ UNCHANGED outsidePyav

\* finally: if container: container.close(); then the call ends
PyavFinally ==
    /\ pyav_pc = "finally"
    /\ IF IsOpen(container)
       THEN container' = "closed" /\ closes' = closes + 1
       ELSE UNCHANGED <<container, closes>>
    /\ pyav_pc' = IF pyav_result.status = "ok" THEN "returned" ELSE "raised"
    /\ UNCHANGED <<opens, pyav_total_frames, pyav_nframes, nframes_unique, frames,
                   pyav_result>>
    /\ UNCHANGED outsidePyav

NextPyav ==
    \/ PyavEnter
    \/ PyavOpen
    \/ PyavStream
    \/ PyavCount
    \/ PyavDecode
    \/ PyavReturn
    \/ PyavExcept
    \/ PyavFinally

SpecPyav == InitPyav /\ [][NextPyav]_vars

PyavExited == pyav_pc \in {"returned", "raised"}

\* C18: once opened, the container is closed exactly once on every exit
\* path of _read_video_pyav; no call ends with the container open, and close
\* is never called on a container that was not opened.
C18_ContainerClosedOnce ==
    /\ closes <= opens
    /\ opens <= 1
    /\ (container = "open") <=> (opens = 1 /\ closes = 0)
    /\ PyavExited => container # "open" /\ closes = opens
    /\ (PyavExited /\ pyav_result.status \in {"FileNotFoundError", "NotImplementedError"})
          => closes = 0

\* the decoder fails in the loop after a frame was decoded: the container
\* was open and is closed, once
C18_Witness ==
    /\ pyav_pc = "raised"
    /\ pyav_result.status = "AVError"
    /\ frames >= 1
    /\ frames < nframes_unique
    /\ opens = 1
    /\ closes = 1
    /\ container = "closed"

StrictlyIncreasing(seq) == \A i \in 1 .. Len(seq) - 1 : seq[i] < seq[i + 1]

PyavCounted == pyav_pc = "loop" /\ frames = 0

\* C19 as stated: for every total_frames and every n smart_nframes returns,
\* the rounded linspace indices are strictly increasing, nframes_unique = n,
\* the returned sequence has exactly n frames, and the divisor
\* nframes_unique - 1 of sample_interval is at least 1: no division by zero.
C19_ExactlyNFrames ==
    /\ PyavCounted =>
          StrictlyIncreasing(FrameIndices32(pyav_total_frames, pyav_nframes))
    /\ pyav_pc = "loop" =>
          /\ FRAME_FACTOR <= pyav_nframes /\ pyav_nframes <= pyav_total_frames
          /\ nframes_unique = pyav_nframes
          /\ nframes_unique - 1 >= 1
    /\ pyav_pc = "returned" => pyav_result.frames = pyav_nframes
    /\ pyav_result.status # "ZeroDivisionError"

====
